---- MODULE Spec2Model ----
(***************************************************************************)
(* Model of scripts/hf_point.py: one periodic batch job that queries the   *)
(* HF-radar tabular endpoint with retries (fetch_csv), parses the CSV      *)
(* (parse_rows), selects the nearest cell and overwrites one JSON artifact *)
(* (main).  Floating point values are fixed point integers, 1 = 0.0001.    *)
(***************************************************************************)
EXTENDS Integers, Naturals, Sequences, FiniteSets, TLC

VARIABLES
    pc,        \* control point of the run: idle, fetch, fetched, done, crashed
    i,         \* loop index of fetch_csv
    r,         \* last HTTP response received
    csv_text,  \* value returned by fetch_csv
    rows,      \* value returned by parse_rows
    fs,        \* output location: directory, file, file content
    now,       \* clock read at the start of the run, in minutes
    err,       \* exception that ended the run, "" when none
    run,       \* number of runs started
    trace,     \* requests, sleeps, reads and writes of the current run
    n429,      \* responses of the current run with status 429
    nNet,      \* attempts of the current run that failed at network level
    prior,     \* output location as the current run found it
    origin,    \* output location before the current streak of copies
    streak,    \* consecutive runs that re-persisted the previous artifact
    path       \* branch of main taken: none, empty, norows, success

vars == <<pc, i, r, csv_text, rows, fs, now, err, run, trace, n429, nNet,
          prior, origin, streak, path>>

(* ----- bounds of the model ----- *)
MaxRuns == 2
MaxLines == 3
MaxGap == 2
ClockStep == 30
T0 == 600

(* ----- Config (hf_point.py, lines 5-29) ----- *)
LAT0 == 377477
LON0 == -1223020
BOX_KM == 12
HOURS == 6
UOM == "cms"
RETRIES == 5
RETRY_SLEEP == 6

Scale == 10000
MinutesPerHour == 60
COS_LAT0 == 7907

(* ----- small pure helpers ----- *)
round_down_hour(dt) == dt - (dt % MinutesPerHour)

strftime(dt) == (dt \div MinutesPerHour) * MinutesPerHour

build_bbox(lat0, lon0, box_km) ==
    LET dlat == (box_km * Scale) \div 111
        dlon == (box_km * Scale * Scale) \div (111 * COS_LAT0)
    IN  [lat1 |-> lat0 - dlat, lon1 |-> lon0 - dlon,
         lat2 |-> lat0 + dlat, lon2 |-> lon0 + dlon]

(* ----- upstream responses ----- *)
HDR == <<"time", "latitude", "longitude", "u", "v">>
ROW_NEAR == <<"t1", "37.75", "-122.30", "1.5", "-2">>
ROW_FAR == <<"t2", "37.80", "-122.25", "-2", "0">>
ROW_BAD == <<"t", "1", "2", "a", "b">>
ROW_SHORT == <<"t3", "37.75", "-122.30", "1.5">>
ROW_TIE == <<"t4", "37.75", "-122.30", "-2", "1.5", "ok">>
ROW_QUOTE == <<"t0", "\"x">>
ROW_TINY == <<"t6", "37.80", "-122.30", "-1e-20", "2">>

B_EMPTY == << >>
B_BLANK == << << >> >>
B_HDR == << HDR >>
B_BAD == << HDR, ROW_BAD >>
B_ONE == << HDR, ROW_NEAR >>
B_TWO == << <<"#c">>, HDR, ROW_FAR, << >>, ROW_SHORT, ROW_NEAR >>

Bodies == {B_EMPTY, B_BLANK, B_HDR, B_BAD, B_ONE, B_TWO}
Statuses == {200, 301, 404, 429, 499, 500, 503}
NoResponse == [status |-> 0, text |-> B_EMPTY]

(* str.strip() of a line: a line without fields is blank *)
strip(ln) == ln

startswith_hash(ln) == Len(ln) > 0 /\ ln[1] \in {"#", "#c"}

text_strip_inverted(text) == \A k \in 1..Len(text) : Len(strip(text[k])) = 0

(* r.text.strip() is truthy *)
text_strip(text) == \E k \in 1..Len(text) : Len(strip(text[k])) > 0

(* float("-1e-20"): a negative value whose magnitude is far below the     *)
(* fixed-point unit, kept apart from every ordinary value                 *)
NEG_TINY == -2000000000

(* ----- parse_rows (lines 64-86) ----- *)
(* float(s): the decimal literals of the modelled responses; any other    *)
(* string raises ValueError                                               *)
FloatTable ==
    [s \in {"37.75", "37.80", "-122.30", "-122.25", "1.5", "-2", "0", "1", "2",
             "-1e-20"} |->
        CASE s = "37.75" -> 377500
          [] s = "37.80" -> 378000
          [] s = "-122.30" -> -1223000
          [] s = "-122.25" -> -1222500
          [] s = "1.5" -> 15000
          [] s = "-2" -> -20000
          [] s = "0" -> 0
          [] s = "1" -> 10000
          [] s = "2" -> 20000
          [] s = "-1e-20" -> NEG_TINY]

is_float(s) == s \in DOMAIN FloatTable

float(s) == FloatTable[s]

keep_line(ln) == Len(strip(ln)) > 0 /\ ~startswith_hash(strip(ln))

RECURSIVE clean_lines(_)
clean_lines(text) ==
    IF text = << >> THEN << >>
    ELSE IF keep_line(Head(text))
         THEN <<strip(Head(text))>> \o clean_lines(Tail(text))
         ELSE clean_lines(Tail(text))

row_ok(row) ==
    /\ Len(row) >= 5
    /\ is_float(row[2]) /\ is_float(row[3])
    /\ is_float(row[4]) /\ is_float(row[5])

make_row(row) ==
    [time |-> row[1], lat |-> float(row[2]), lon |-> float(row[3]),
     u |-> float(row[4]), v |-> float(row[5])]

(* csv.reader: a field that opens a double quote and does not close it   *)
(* runs on into the following lines, up to the line holding the next      *)
(* double quote                                                           *)
has_quote(ln) == \E k \in 1..Len(ln) : ln[k] = "\"x"

open_quote(ln) == Len(ln) > 0 /\ ln[Len(ln)] = "\"x"

RECURSIVE skip_quoted(_)
skip_quoted(lines) ==
    IF lines = << >> THEN << >>
    ELSE IF has_quote(Head(lines)) THEN Tail(lines)
    ELSE skip_quoted(Tail(lines))

(* the lines left for the reader after the record that starts at Head *)
csv_rest(lines) ==
    IF open_quote(Head(lines)) THEN skip_quoted(Tail(lines)) ELSE Tail(lines)

RECURSIVE parse_records(_)
parse_records(lines) ==
    IF lines = << >> THEN << >>
    ELSE IF row_ok(Head(lines))
         THEN <<make_row(Head(lines))>> \o parse_records(csv_rest(lines))
         ELSE parse_records(csv_rest(lines))

parse_rows(text) ==
    LET lines == clean_lines(text)
    IN  IF Len(lines) <= 1 THEN << >> ELSE parse_records(csv_rest(lines))

(* ----- nearest cell and derived vector (lines 39-45, 146-150) ----- *)
(* great-circle distance in metres from (lat1, lon1) = (LAT0, LON0),      *)
(* tabulated from the haversine formula with R = 6371000                  *)
haversine_m(lat1, lon1, lat2, lon2) ==
    CASE lat2 = 377500 /\ lon2 = -1223000 -> 310
      [] lat2 = 377500 /\ lon2 = -1222500 -> 4579
      [] lat2 = 378000 /\ lon2 = -1223000 -> 5818
      [] lat2 = 378000 /\ lon2 = -1222500 -> 7397
      [] OTHER -> 2 * 6371000

key(row) == haversine_m(LAT0, LON0, row.lat, row.lon)

min_row_last(rs) ==
    LET k == CHOOSE k \in 1..Len(rs) :
                 /\ \A j \in 1..Len(rs) : key(rs[k]) <= key(rs[j])
                 /\ \A j \in (k + 1)..Len(rs) : key(rs[j]) > key(rs[k])
    IN  rs[k]

(* min(rows, key=...): the first row whose key no other row undercuts *)
min_row(rs) ==
    LET k == CHOOSE k \in 1..Len(rs) :
                 /\ \A j \in 1..Len(rs) : key(rs[k]) <= key(rs[j])
                 /\ \A j \in 1..(k - 1) : key(rs[j]) > key(rs[k])
    IN  rs[k]

RECURSIVE isqrt_from(_, _)
isqrt_from(n, x) ==
    LET y == (x + (n \div x)) \div 2
    IN  IF y >= x THEN x ELSE isqrt_from(n, y)

(* the magnitude NEG_TINY adds to an ordinary value: none *)
mag(x) == IF x = NEG_TINY THEN 0 ELSE x

hypot(u, v) ==
    LET n == mag(u) * mag(u) + mag(v) * mag(v)
    IN  IF n = 0 THEN 0 ELSE isqrt_from(n, n)

(* math.degrees(math.atan2(u, v)), tabulated, in (-180, 180] *)
atan2_degrees(u, v) ==
    CASE u = 15000 /\ v = -20000 -> 1431301
      [] u = -20000 /\ v = 0 -> -900000
      [] u = -20000 /\ v = 15000 -> -531301
      [] u = 0 /\ v = -20000 -> 1800000
      [] u = 15000 /\ v = 0 -> 900000
      [] u = NEG_TINY /\ v = 20000 -> NEG_TINY
      [] OTHER -> 0

(* binary64 addition: a sum with NEG_TINY rounds to the other operand *)
fadd(a, b) ==
    IF a = NEG_TINY THEN b ELSE IF b = NEG_TINY THEN a ELSE a + b

(* line 150: if bearing < 0: bearing += 360.0 *)
normalize_bearing(b) == IF b < 0 THEN fadd(b, 360 * Scale) ELSE b

(* ----- JSON documents and the output location ----- *)
KeyOrder ==
    <<"target", "bbox", "nearest", "from", "to", "hours", "boxKm", "uom", "n",
      "u", "v", "speed", "bearing", "source_url", "tier_used", "error",
      "generated_at">>

json_dump_partial(d) ==
    LET ks == SelectSeq(KeyOrder, LAMBDA k : k \in DOMAIN d)
    IN  [j \in 1..(Len(ks) - 1) |-> <<ks[j], d[ks[j]]>>]

(* json.dump: the members of the dict, one per key *)
json_dump(d) ==
    LET ks == SelectSeq(KeyOrder, LAMBDA k : k \in DOMAIN d)
    IN  [j \in 1..Len(ks) |-> <<ks[j], d[ks[j]]>>]

(* json.load of an object: a repeated name keeps its last value *)
json_load(ms) ==
    [k \in {ms[j][1] : j \in 1..Len(ms)} |->
        ms[CHOOSE j \in 1..Len(ms) :
               /\ ms[j][1] = k
               /\ \A l \in (j + 1)..Len(ms) : ms[l][1] # k][2]]

TARGET == [lat |-> LAT0, lon |-> LON0]

(* artifacts a run can find: none, unparseable, and documents left by     *)
(* earlier runs of this job or of its tiered sibling                      *)
ART_TIERED ==
    <<<<"target", TARGET>>, <<"uom", UOM>>, <<"n", 1>>,
      <<"tier_used", [hours |-> 12, boxKm |-> 24]>>, <<"generated_at", T0>>>>
ART_DIAG ==
    <<<<"target", TARGET>>, <<"uom", UOM>>, <<"n", 0>>,
      <<"error", "no rows">>, <<"generated_at", T0>>>>
ART_REPEAT ==
    <<<<"uom", "kts">>, <<"n", 0>>, <<"n", 1>>>>

NoDir == [dir |-> FALSE, file |-> "absent", members |-> << >>]
NoFile == [dir |-> TRUE, file |-> "absent", members |-> << >>]
Garbage == [dir |-> TRUE, file |-> "garbage", members |-> << >>]
JsonFile(ms) == [dir |-> TRUE, file |-> "json", members |-> ms]

InitialLocations ==
    {NoDir, NoFile, Garbage, JsonFile(ART_TIERED), JsonFile(ART_DIAG),
     JsonFile(ART_REPEAT)}

Ev(op, arg) == [op |-> op, arg |-> arg]

Count(tr, op) == Cardinality({k \in 1..Len(tr) : tr[k].op = op})

(* ----- fetch_csv (lines 47-62) ----- *)
range_end_short == RETRIES

range_end_long == RETRIES + 2

(* range(RETRIES + 1) *)
range_end == RETRIES + 1

retryable_client_errors(status) == status >= 400

retryable(status) == status >= 500 \/ status = 429

backoff_flat(k) == RETRY_SLEEP

(* line 55 and line 60: RETRY_SLEEP*(i+1) *)
backoff(k) == RETRY_SLEEP * (k + 1)

caught_nothing(exc) == FALSE

(* the exceptions the except clause of line 59 catches *)
caught(exc) == exc = "RequestException"

(* requests.get returns a response *)
Request(status, text) ==
    /\ pc = "fetch"
    /\ i < range_end
    /\ r' = [status |-> status, text |-> text]
    /\ n429' = IF status = 429 THEN n429 + 1 ELSE n429
    /\ IF status = 200 /\ text_strip(text)
       THEN /\ csv_text' = text
            /\ pc' = "fetched"
            /\ trace' = Append(trace, Ev("req", i))
            /\ i' = i
       ELSE IF retryable(status)
       THEN /\ trace' = trace \o <<Ev("req", i), Ev("sleep", backoff(i))>>
            /\ i' = i + 1
            /\ UNCHANGED <<csv_text, pc>>
       ELSE /\ csv_text' = B_EMPTY
            /\ pc' = "fetched"
            /\ trace' = Append(trace, Ev("req", i))
            /\ i' = i
    /\ UNCHANGED <<rows, fs, now, err, run, nNet, prior, origin, streak, path>>

RequestFailsReturns ==
    /\ pc = "fetch"
    /\ i < range_end
    /\ nNet' = nNet + 1
    /\ trace' = Append(trace, Ev("req", i))
    /\ csv_text' = B_EMPTY
    /\ pc' = "fetched"
    /\ UNCHANGED <<i, r, rows, fs, now, err, run, n429, prior, origin,
                   streak, path>>

(* requests.get raises requests.RequestException *)
RequestFails ==
    /\ pc = "fetch"
    /\ i < range_end
    /\ nNet' = nNet + 1
    /\ IF caught("RequestException")
       THEN /\ trace' = trace \o <<Ev("req", i), Ev("sleep", backoff(i))>>
            /\ i' = i + 1
            /\ UNCHANGED <<pc, err>>
       ELSE /\ trace' = Append(trace, Ev("req", i))
            /\ pc' = "crashed"
            /\ err' = "RequestException"
            /\ i' = i
    /\ UNCHANGED <<r, csv_text, rows, fs, now, run, n429, prior, origin,
                   streak, path>>

(* the loop of line 48 is exhausted: line 62 *)
Exhausted ==
    /\ pc = "fetch"
    /\ i >= range_end
    /\ csv_text' = B_EMPTY
    /\ pc' = "fetched"
    /\ UNCHANGED <<i, r, rows, fs, now, err, run, trace, n429, nNet, prior,
                   origin, streak, path>>

(* ----- main (lines 88-165) ----- *)
to_dt(t) == round_down_hour(t)

from_dt(t) == to_dt(t) - HOURS * MinutesPerHour

from_str(t) == strftime(from_dt(t))

to_str(t) == strftime(to_dt(t))

(* lines 109-115 *)
out(t) ==
    [target |-> TARGET,
     bbox |-> build_bbox(LAT0, LON0, BOX_KM),
     from |-> from_str(t), to |-> to_str(t),
     uom |-> UOM, hours |-> HOURS,
     n |-> 0]

(* lines 146-161 *)
result(t, rs) ==
    LET nearest == min_row(rs)
        u == nearest.u
        v == nearest.v
    IN  [target |-> TARGET,
         nearest |-> nearest,
         from |-> from_str(t), to |-> to_str(t),
         u |-> u, v |-> v,
         speed |-> hypot(u, v),
         bearing |-> normalize_bearing(atan2_degrees(u, v)),
         uom |-> UOM,
         n |-> 1]

(* lines 89-108: read the clock, build the query, enter fetch_csv *)
Start(gap) ==
    /\ pc \in {"idle", "done", "crashed"}
    /\ run < MaxRuns
    /\ run' = run + 1
    /\ now' = now + gap * ClockStep
    /\ pc' = "fetch"
    /\ i' = 0
    /\ r' = NoResponse
    /\ csv_text' = B_EMPTY
    /\ rows' = << >>
    /\ err' = ""
    /\ trace' = << >>
    /\ n429' = 0
    /\ nNet' = 0
    /\ prior' = fs
    /\ path' = "none"
    /\ UNCHANGED <<fs, origin, streak>>

(* the exceptions the except clauses of lines 126 and 140 catch *)
handled(exc) == exc = "FileNotFoundError"

existing_reset(ms) ==
    [k \in {ms[j][1] : j \in 1..Len(ms)} |->
        IF k = "n" THEN 0
        ELSE ms[CHOOSE j \in 1..Len(ms) : ms[j][1] = k][2]]

(* lines 120-121 and 135-136: existing = json.load(f) *)
existing(ms) == json_load(ms)

(* the "keep previous value" block of lines 119-129 *)
KeepPrevious ==
    IF ~fs.dir \/ fs.file = "absent"
    THEN \* open(OUT_PATH, "r") raises FileNotFoundError
         IF ~handled("FileNotFoundError")
         THEN /\ trace' = Append(trace, Ev("read", 0))
              /\ pc' = "crashed" /\ err' = "FileNotFoundError"
              /\ UNCHANGED <<fs, origin, streak>>
         ELSE IF fs.dir
         THEN /\ trace' = trace \o <<Ev("read", 0), Ev("write", 1)>>
              /\ fs' = JsonFile(json_dump(out(now)))
              /\ pc' = "done"
              /\ origin' = fs'
              /\ streak' = 0
              /\ UNCHANGED err
         ELSE \* open(OUT_PATH, "w") raises inside the handler
              /\ trace' = trace \o <<Ev("read", 0), Ev("write", 0)>>
              /\ pc' = "crashed" /\ err' = "FileNotFoundError"
              /\ UNCHANGED <<fs, origin, streak>>
    ELSE IF fs.file = "garbage"
    THEN \* json.load raises json.JSONDecodeError
         /\ trace' = Append(trace, Ev("read", 1))
         /\ pc' = "crashed" /\ err' = "JSONDecodeError"
         /\ UNCHANGED <<fs, origin, streak>>
    ELSE /\ trace' = trace \o <<Ev("read", 1), Ev("write", 1)>>
         /\ fs' = JsonFile(json_dump(existing(fs.members)))
         /\ pc' = "done"
         /\ streak' = streak + 1
         /\ UNCHANGED <<err, origin>>

KeepPreviousRowsFresh ==
    IF ~fs.dir \/ fs.file = "absent"
    THEN \* open(OUT_PATH, "r") raises FileNotFoundError
         IF ~handled("FileNotFoundError")
         THEN /\ trace' = Append(trace, Ev("read", 0))
              /\ pc' = "crashed" /\ err' = "FileNotFoundError"
              /\ UNCHANGED <<fs, origin, streak>>
         ELSE IF fs.dir
         THEN /\ trace' = trace \o <<Ev("read", 0), Ev("write", 1)>>
              /\ fs' = JsonFile(json_dump(out(now)))
              /\ pc' = "done"
              /\ origin' = fs'
              /\ streak' = 0
              /\ UNCHANGED err
         ELSE \* open(OUT_PATH, "w") raises inside the handler
              /\ trace' = trace \o <<Ev("read", 0), Ev("write", 0)>>
              /\ pc' = "crashed" /\ err' = "FileNotFoundError"
              /\ UNCHANGED <<fs, origin, streak>>
    ELSE IF fs.file = "garbage"
    THEN \* json.load raises json.JSONDecodeError
         /\ trace' = Append(trace, Ev("read", 1))
         /\ pc' = "crashed" /\ err' = "JSONDecodeError"
         /\ UNCHANGED <<fs, origin, streak>>
    ELSE /\ trace' = trace \o <<Ev("read", 1), Ev("write", 1)>>
         /\ fs' = JsonFile(json_dump(out(now)))
         /\ pc' = "done"
         /\ streak' = streak + 1
         /\ UNCHANGED <<err, origin>>

(* the "keep previous value" block of lines 134-143 *)
KeepPreviousRows ==
    IF ~fs.dir \/ fs.file = "absent"
    THEN \* open(OUT_PATH, "r") raises FileNotFoundError
         IF ~handled("FileNotFoundError")
         THEN /\ trace' = Append(trace, Ev("read", 0))
              /\ pc' = "crashed" /\ err' = "FileNotFoundError"
              /\ UNCHANGED <<fs, origin, streak>>
         ELSE IF fs.dir
         THEN /\ trace' = trace \o <<Ev("read", 0), Ev("write", 1)>>
              /\ fs' = JsonFile(json_dump(out(now)))
              /\ pc' = "done"
              /\ origin' = fs'
              /\ streak' = 0
              /\ UNCHANGED err
         ELSE \* open(OUT_PATH, "w") raises inside the handler
              /\ trace' = trace \o <<Ev("read", 0), Ev("write", 0)>>
              /\ pc' = "crashed" /\ err' = "FileNotFoundError"
              /\ UNCHANGED <<fs, origin, streak>>
    ELSE IF fs.file = "garbage"
    THEN \* json.load raises json.JSONDecodeError
         /\ trace' = Append(trace, Ev("read", 1))
         /\ pc' = "crashed" /\ err' = "JSONDecodeError"
         /\ UNCHANGED <<fs, origin, streak>>
    ELSE /\ trace' = trace \o <<Ev("read", 1), Ev("write", 1)>>
         /\ fs' = JsonFile(json_dump(existing(fs.members)))
         /\ pc' = "done"
         /\ streak' = streak + 1
         /\ UNCHANGED <<err, origin>>

(* lines 117-129: fetch_csv returned the empty string *)
MainNoText ==
    /\ pc = "fetched"
    /\ csv_text = B_EMPTY
    /\ path' = "empty"
    /\ KeepPrevious
    /\ UNCHANGED <<i, r, csv_text, rows, now, run, n429, nNet, prior>>

(* lines 131-143: the text holds no valid row *)
MainNoRows ==
    /\ pc = "fetched"
    /\ csv_text # B_EMPTY
    /\ parse_rows(csv_text) = << >>
    /\ path' = "norows"
    /\ KeepPreviousRows
    /\ UNCHANGED <<i, r, csv_text, rows, now, run, n429, nNet, prior>>

(* lines 131, 145-165: build the result, create the directory, write *)
MainResult ==
    /\ pc = "fetched"
    /\ csv_text # B_EMPTY
    /\ parse_rows(csv_text) # << >>
    /\ rows' = parse_rows(csv_text)
    /\ path' = "success"
    /\ fs' = JsonFile(json_dump(result(now, rows')))
    /\ trace' = Append(trace, Ev("write", 1))
    /\ pc' = "done"
    /\ origin' = fs'
    /\ streak' = 0
    /\ UNCHANGED <<i, r, csv_text, now, err, run, n429, nNet, prior>>

Init ==
    /\ pc = "idle"
    /\ i = 0
    /\ r = NoResponse
    /\ csv_text = B_EMPTY
    /\ rows = << >>
    /\ fs \in InitialLocations
    /\ now = T0
    /\ err = ""
    /\ run = 0
    /\ trace = << >>
    /\ n429 = 0
    /\ nNet = 0
    /\ prior = fs
    /\ origin = fs
    /\ streak = 0
    /\ path = "none"

Next ==
    \/ \E gap \in 1..MaxGap : Start(gap)
    \/ \E status \in Statuses, text \in Bodies : Request(status, text)
    \/ RequestFails
    \/ Exhausted
    \/ MainNoText
    \/ MainNoRows
    \/ MainResult

Spec == Init /\ [][Next]_vars

(* the run cannot stop before it ends: the script runs to completion *)
FairSpec == Spec /\ WF_vars(Next)

(* ----- one run, seen from the moment fetch_csv is entered ----- *)
InitOne ==
    /\ pc = "fetch"
    /\ i = 0
    /\ r = NoResponse
    /\ csv_text = B_EMPTY
    /\ rows = << >>
    /\ fs \in InitialLocations
    /\ now = T0 + ClockStep
    /\ err = ""
    /\ run = 1
    /\ trace = << >>
    /\ n429 = 0
    /\ nNet = 0
    /\ prior = fs
    /\ origin = fs
    /\ streak = 0
    /\ path = "none"

(* response texts of up to MaxLines lines over the modelled lines *)
Lines ==
    {<< >>, <<"#c">>, HDR, ROW_NEAR, ROW_TIE, ROW_FAR, ROW_BAD, ROW_SHORT,
     ROW_QUOTE, ROW_TINY}

Texts == UNION {[1..n -> Lines] : n \in 0..MaxLines}

(* a run whose first response is a 200 with any of the texts *)
NextParse ==
    \/ \E text \in Texts : Request(200, text)
    \/ MainNoText
    \/ MainNoRows
    \/ MainResult

ParseSpec == InitOne /\ [][NextParse]_vars

(* one call of fetch_csv; every requests.get returns or raises within     *)
(* TIMEOUT and every sleep ends, so the loop keeps moving                 *)
NextFetch ==
    \/ \E status \in Statuses, text \in Bodies : Request(status, text)
    \/ RequestFails
    \/ Exhausted

FetchSpec == InitOne /\ [][NextFetch]_vars /\ WF_vars(NextFetch)

TypeOK ==
    /\ pc \in {"idle", "fetch", "fetched", "done", "crashed"}
    /\ i \in 0..range_end
    /\ run \in 0..MaxRuns
    /\ path \in {"none", "empty", "norows", "success"}

(* ----- vocabulary of the properties ----- *)
Reqs == Count(trace, "req")

Sleeps == Count(trace, "sleep")

Reads == Count(trace, "read")

Writes == Count(trace, "write")

WritesDone == Cardinality({k \in 1..Len(trace) : trace[k] = Ev("write", 1)})

Ended == pc \in {"done", "crashed"}

NoData == path \in {"empty", "norows"}

NonBlank(text) == \E k \in 1..Len(text) : text[k] # << >>

GoodResponse(resp) == resp.status = 200 /\ NonBlank(resp.text)

FinalResponse(resp) ==
    /\ resp.status # 0
    /\ ~GoodResponse(resp)
    /\ resp.status # 429
    /\ resp.status < 500

NewDoc == json_load(fs.members)

OldDoc == json_load(prior.members)

OriginDoc == json_load(origin.members)

SameExcept(a, b, skip) ==
    /\ DOMAIN a \ skip = DOMAIN b \ skip
    /\ \A k \in DOMAIN a \ skip : a[k] = b[k]

(* C1: fetch_csv never ends in an error: whatever the upstream did on any *)
(* attempt, once the call is over it has returned the body of the last    *)
(* response or the empty string, and no exception left it.                *)
C1_NeverRaises ==
    /\ ~(pc = "crashed" /\ path = "none")
    /\ err # "RequestException"
    /\ pc = "fetched" =>
          \/ csv_text = B_EMPTY
          \/ GoodResponse(r) /\ csv_text = r.text

C1_Witness ==
    /\ pc = "fetched"
    /\ nNet = RETRIES + 1
    /\ csv_text = B_EMPTY

(* C2: every run that ends has written the artifact and ended without an  *)
(* unhandled error, whatever the output location held.                    *)
C2_AlwaysWritten == Ended => pc = "done" /\ WritesDone = 1

(* C3: in one run the artifact is read at most once and written at most   *)
(* once, a read happens only on the no-data path and before the write,    *)
(* and what was written is the fresh result, the prior artifact or the    *)
(* diagnostic record, whole.                                              *)
C3_OneReadOneWrite ==
    /\ Reads <= 1
    /\ Writes <= 1
    /\ Reads > 0 => NoData
    /\ \A j, k \in 1..Len(trace) :
           trace[j].op = "read" /\ trace[k].op = "write" => j < k
    /\ WritesDone > 0 =>
          /\ fs.file = "json"
          /\ \/ rows # << >> /\ NewDoc = result(now, rows)
             \/ prior.file = "json" /\ NewDoc = OldDoc
             \/ NewDoc = out(now)

C3_Witness ==
    /\ pc = "done"
    /\ path = "norows"
    /\ Reads = 1
    /\ WritesDone = 1
    /\ prior.file = "json"

(* C4: a no-data run that finds a prior artifact writes an artifact with  *)
(* the same fields and values, generated_at aside, as the prior one, and  *)
(* as the one that stood before the streak of such runs began.            *)
C4_FallbackPreserves ==
    (pc = "done" /\ NoData /\ prior.file = "json") =>
        /\ SameExcept(NewDoc, OldDoc, {"generated_at"})
        /\ origin.file = "json"
        /\ SameExcept(NewDoc, OriginDoc, {"generated_at"})

C4_Witness ==
    /\ pc = "done"
    /\ NoData
    /\ prior.file = "json"
    /\ streak = 2
    /\ NewDoc.n = 1

(* C5: a no-data run that finds a prior artifact stamped generated_at =   *)
(* T0 writes an artifact whose generated_at is the time of the run, later *)
(* than T0.                                                               *)
C5_TimestampRefreshed ==
    (pc = "done" /\ NoData /\ prior.file = "json"
        /\ "generated_at" \in DOMAIN OldDoc) =>
        /\ "generated_at" \in DOMAIN NewDoc
        /\ NewDoc["generated_at"] = now
        /\ NewDoc["generated_at"] > OldDoc["generated_at"]

(* C6: a no-data run that finds no prior artifact writes a diagnostic     *)
(* record with target, uom, n = 0, an error marker and generated_at.      *)
C6_DiagnosticShape ==
    (pc = "done" /\ NoData /\ prior.file = "absent") =>
        /\ fs.file = "json"
        /\ {"target", "uom", "n", "error", "generated_at"} \subseteq DOMAIN NewDoc
        /\ NewDoc["n"] = 0

(* C7: tiers are tried in declared order, a tier without rows is followed *)
(* by the query of the next tier before any fallback, and the tier that   *)
(* first yields a row is reported as tier_used.                           *)
Tiers == <<[hours |-> HOURS, boxKm |-> BOX_KM]>>

C7_TierEscalation ==
    /\ (Ended /\ NoData) => Reqs >= Len(Tiers)
    /\ (pc = "done" /\ path = "success") =>
          /\ "tier_used" \in DOMAIN NewDoc
          /\ NewDoc["tier_used"] = Tiers[1]

(* C8 as stated: with 429 on every call the fetch returns the empty       *)
(* string after exactly RETRIES requests.                                 *)
C8_ExactlyRetriesRequests ==
    (pc = "fetched" /\ n429 > 0 /\ n429 = Reqs) =>
        csv_text = B_EMPTY /\ Reqs = RETRIES

(* C8 amended: with 429 on every call the fetch returns the empty string  *)
(* after exactly RETRIES + 1 requests.                                    *)
C8_ExactlyRetriesPlusOne ==
    (pc = "fetched" /\ n429 > 0 /\ n429 = Reqs) =>
        csv_text = B_EMPTY /\ Reqs = RETRIES + 1

C8_Witness ==
    /\ pc = "fetched"
    /\ n429 = Reqs
    /\ Reqs = 6

(* C9: after 429 on the first N-1 calls and 200 with a non-empty body on  *)
(* the N-th, the fetch returns that body, with N requests issued and      *)
(* nothing after the N-th.                                                *)
C9_SuccessAfterRetries ==
    \A N \in 1..(RETRIES + 1) :
        (r.status = 200 /\ NonBlank(r.text) /\ n429 = N - 1 /\ nNet = 0
            /\ Reqs = N /\ pc \in {"fetch", "fetched"}) =>
            /\ pc = "fetched"
            /\ csv_text = r.text
            /\ Sleeps = N - 1
            /\ trace[Len(trace)] = Ev("req", N - 1)

C9_Witness ==
    /\ pc = "fetched"
    /\ csv_text = B_TWO
    /\ n429 = RETRIES
    /\ Reqs = RETRIES + 1

(* C10: a response that is neither a success nor retryable ends the fetch *)
(* at once: the empty string is returned with no sleep and no request     *)
(* after it, whatever came before.                                        *)
C10_NonRetryableEndsFetch ==
    (pc \in {"fetch", "fetched"} /\ FinalResponse(r)) =>
        /\ pc = "fetched"
        /\ csv_text = B_EMPTY
        /\ trace[Len(trace)].op = "req"
        /\ Reqs = Sleeps + 1

C10_Witness ==
    /\ pc = "fetched"
    /\ r = [status |-> 200, text |-> B_BLANK]
    /\ n429 > 0
    /\ nNet > 0

(* C11: the row stored as nearest has the least distance to the target of *)
(* all parsed rows and is the first row with that distance; the artifact  *)
(* has n = 1 and carries that row's u and v and their Euclidean norm.     *)
C11_NearestRow ==
    (pc = "done" /\ path = "success") =>
        \E k \in 1..Len(rows) :
            /\ NewDoc["nearest"] = rows[k]
            /\ \A j \in 1..Len(rows) : key(rows[k]) <= key(rows[j])
            /\ \A j \in 1..(k - 1) : key(rows[j]) > key(rows[k])
            /\ NewDoc["n"] = 1
            /\ NewDoc["u"] = rows[k].u
            /\ NewDoc["v"] = rows[k].v
            /\ LET q == mag(rows[k].u) * mag(rows[k].u)
                          + mag(rows[k].v) * mag(rows[k].v)
                   sp == NewDoc["speed"]
               IN  sp >= 0 /\ sp * sp <= q /\ q < (sp + 1) * (sp + 1)

C11_Witness ==
    /\ pc = "done"
    /\ path = "success"
    /\ Len(rows) = 2
    /\ rows[1] # rows[2]
    /\ key(rows[1]) = key(rows[2])
    /\ NewDoc["nearest"] = rows[1]

(* C12: parse_rows returns exactly, in input order, the lines after the   *)
(* header that have at least 5 fields with numeric 2nd to 5th fields,     *)
(* blank and comment lines set aside, and nothing when fewer than two     *)
(* lines remain.                                                          *)
RefLines(text) ==
    SelectSeq(text, LAMBDA ln : ln # << >> /\ ln[1] \notin {"#", "#c"})

RefValid(ln) == Len(ln) >= 5 /\ \A k \in 2..5 : is_float(ln[k])

RefRows(text) ==
    LET ls == RefLines(text)
        valid == IF Len(ls) < 2 THEN << >> ELSE SelectSeq(Tail(ls), RefValid)
    IN  [j \in 1..Len(valid) |-> make_row(valid[j])]

C12_ParseMatchesReference ==
    (Ended /\ path \in {"norows", "success"}) => rows = RefRows(csv_text)

(* C13: the bearing written lies in [0, 360): a negative angle is written *)
(* increased by 360, any other angle unchanged, and 360 is never written. *)
C13_BearingInRange ==
    (pc = "done" /\ path = "success") =>
        LET a == atan2_degrees(NewDoc["u"], NewDoc["v"])
            b == NewDoc["bearing"]
        IN  /\ 0 <= b /\ b < 360 * Scale
            /\ a >= 0 => b = a
            /\ a < 0 => b = fadd(a, 360 * Scale)

(* C14: the artifact of a successful run has every field of the success   *)
(* shape, and generated_at is the time of the run.                        *)
C14_SuccessShape ==
    (pc = "done" /\ path = "success") =>
        /\ {"target", "nearest", "from", "to", "hours", "boxKm", "uom", "n",
            "u", "v", "speed", "bearing", "source_url", "tier_used",
            "generated_at"} \subseteq DOMAIN NewDoc
        /\ NewDoc["generated_at"] = now

(* C15: the sleep after the i-th attempt of a call, counted from 1, lasts *)
(* i x RETRY_SLEEP seconds, so the j-th sleep of the call lasts           *)
(* j x RETRY_SLEEP.                                                       *)
SleepSeq == SelectSeq(trace, LAMBDA e : e.op = "sleep")

C15_LinearBackoff ==
    /\ \A k \in 1..Len(trace) :
           trace[k].op = "sleep" =>
               /\ k > 1
               /\ trace[k - 1].op = "req"
               /\ trace[k].arg = (trace[k - 1].arg + 1) * RETRY_SLEEP
    /\ \A j \in 1..Len(SleepSeq) : SleepSeq[j].arg = j * RETRY_SLEEP

C15_Witness ==
    /\ pc = "fetch"
    /\ Sleeps = 3
    /\ nNet = 1
    /\ n429 = 1
    /\ r.status = 503

(* C16: a network failure is absorbed like a retryable status: it is      *)
(* followed by a backoff and, while attempts remain, another attempt; a   *)
(* later success returns its body; when every attempt failed the call     *)
(* returns the empty string.                                              *)
C16_NetworkFailureRetried ==
    /\ ~(pc = "crashed" /\ path = "none")
    /\ pc \in {"fetch", "fetched"} => nNet <= Sleeps
    /\ pc = "fetch" => Sleeps = Reqs /\ i = Reqs
    /\ (pc = "fetched" /\ Sleeps = Reqs) =>
          csv_text = B_EMPTY /\ Reqs = RETRIES + 1

C16_Witness ==
    /\ pc = "fetched"
    /\ nNet >= 1
    /\ r = [status |-> 200, text |-> B_ONE]
    /\ csv_text = B_ONE

(* C17: what a run without rows leaves behind depends on the prior        *)
(* artifact and the time of the run only, not on whether the text was     *)
(* empty or held no valid row.                                            *)
C17_NoDataSameOutcome ==
    (Ended /\ NoData) =>
        IF prior.file = "json"
        THEN pc = "done" /\ fs.file = "json" /\ NewDoc = OldDoc
        ELSE IF prior.file = "absent" /\ prior.dir
        THEN pc = "done" /\ fs.file = "json" /\ NewDoc = out(now)
        ELSE pc = "crashed" /\ fs = prior

C17_Witness ==
    /\ pc = "done"
    /\ path = "norows"
    /\ prior = NoFile
    /\ NewDoc = out(now)

(* C18: a call of fetch_csv issues at most RETRIES + 1 requests and at    *)
(* most RETRIES + 1 sleeps, of at most RETRY_SLEEP x (1 + ... +           *)
(* (RETRIES + 1)) seconds in total, and returns.                          *)
RECURSIVE SumArgs(_)
SumArgs(tr) == IF tr = << >> THEN 0 ELSE Head(tr).arg + SumArgs(Tail(tr))

SleepTotal == SumArgs(SleepSeq)

Triangle(n) == (n * (n + 1)) \div 2

C18_BoundedFetch ==
    /\ [](/\ Reqs <= RETRIES + 1
          /\ Sleeps <= RETRIES + 1
          /\ SleepTotal <= RETRY_SLEEP * Triangle(RETRIES + 1))
    /\ <>(pc = "fetched")

C18_Witness ==
    /\ pc = "fetched"
    /\ Reqs = RETRIES + 1
    /\ Sleeps = RETRIES + 1
    /\ SleepTotal = RETRY_SLEEP * Triangle(RETRIES + 1)

(* C19: every sleep of a call is followed by another request, so a call   *)
(* that has returned did not sleep after its last request.                *)
C19_SleepOnlyToRetry ==
    pc = "fetched" =>
        \A k \in 1..Len(trace) :
            trace[k].op = "sleep" =>
                k < Len(trace) /\ trace[k + 1].op = "req"

====
